---- MODULE Spec2Model ----
(***************************************************************************)
(* Model of the visual-cryptography share encoder of visual-crypto-lab     *)
(* (utils/imageProcessing: generateVisualShares, generatePatterns,         *)
(* writeBlock2x2).                                                         *)
(*                                                                         *)
(* Conventions.  JavaScript arrays are 0-based; they are modelled by TLA+  *)
(* sequences, element i of the array being element i+1 of the sequence.    *)
(* Channel intensities are kept in thousandths (r * 1000, or               *)
(* 299r + 587g + 114b for the luminance 0.299r + 0.587g + 0.114b) so that  *)
(* the comparison with the threshold is exact integer arithmetic.          *)
(* Math.random() is modelled as k / RandSteps for k in 0..RandSteps-1; the *)
(* index Math.floor(Math.random() * (i + 1)) of the shuffle as any j in    *)
(* 0..i.                                                                   *)
(***************************************************************************)
EXTENDS Integers, Sequences, FiniteSets

VARIABLES
    sourceData,   \* argument: [width, height, data]
    shareCount,   \* argument
    isColor,      \* argument
    pc,           \* position inside generateVisualShares
    x, y,         \* loop counters of the pixel loop
    pat,          \* patterns generated so far for pixel (x,y): <<patR, patG, patB>>
    dark,         \* isDark of each generatePatterns call made for pixel (x,y)
    sharesData,   \* the share buffers being filled
    allocated,    \* TRUE once the share buffers have been allocated
    written,      \* the last block written: [x, y, dark, transparent], or NoBlock
    result,       \* the returned ImageData[] (NoResult before the return)
    gp,           \* one isolated invocation of generatePatterns (pure-function runs)
    wb            \* one share buffer filled by writeBlock2x2 calls (block-writer runs)

vars == <<sourceData, shareCount, isColor, pc, x, y, pat, dark, sharesData,
          allocated, written, result, gp, wb>>

\* ---------------------------------------------------------------- bounds
MaxShareCount == 5
RandSteps == 4

\* channel intensities (bytes)
Intensities == 0..255

\* ------------------------------------------------------- JavaScript values
\* undefined (a read past the end of an array) and NaN (arithmetic on it)
Undefined == -1
NaN == -1

\* sourceData.data[i]
ReadByte(data, i) == IF i < Len(data) THEN data[i + 1] ELSE Undefined

\* data[i] = v on a typed array (a write past the end is ignored)
WriteByte(data, i, v) == IF i < Len(data) THEN [data EXCEPT ![i + 1] = v] ELSE data

\* new Uint8ClampedArray(len)
ZeroArray(len) == [i \in 1..len |-> 0]

\* ------------------------------------------------------- generatePatterns
\* (mutant) classification by val <= threshold
IsDark_Inclusive(val, k) ==
    /\ val # NaN
    /\ val * RandSteps <= (128 - 30) * 1000 * RandSteps + 60 * 1000 * k

\* val < threshold, with threshold = 128 + (Math.random() * 60 - 30) and
\* Math.random() = k / RandSteps; val in thousandths; NaN < t is false
IsDark(val, k) ==
    /\ val # NaN
    /\ val * RandSteps < (128 - 30) * 1000 * RandSteps + 60 * 1000 * k

\* [p[i], p[j]] = [p[j], p[i]]
Swap(p, i, j) ==
    [m \in 1..4 |-> IF m = i + 1 THEN p[j + 1]
                    ELSE IF m = j + 1 THEN p[i + 1]
                    ELSE p[m]]

\* (mutant) shuffle whose loop stops at i > 1: p[1] and p[0] are never swapped
Shuffle_ShortLoop(j3, j2, j1) == Swap(Swap(<<0, 1, 2, 3>>, 3, j3), 2, j2)

\* Fisher-Yates shuffle of [0,1,2,3]; j3, j2, j1 are the indices drawn for
\* i = 3, 2, 1
Shuffle(j3, j2, j1) == Swap(Swap(Swap(<<0, 1, 2, 3>>, 3, j3), 2, j2), 1, j1)

ShuffleDraws == (0..3) \X (0..2) \X (0..1)

\* [0, 0, 0, 0] with positions a and b set to 1
Ink2(a, b) == [m \in 1..4 |-> IF m = a + 1 \/ m = b + 1 THEN 1 ELSE 0]

\* (mutant) light branch that moves the pair along the ring with the share
LightPatterns_PerShare(p, n) == [s \in 1..n |-> Ink2(p[((s - 1) % 4) + 1], p[(s % 4) + 1])]

\* light branch: every share gets ink at p[0] and p[1]
LightPatterns(p, n) == [s \in 1..n |-> Ink2(p[1], p[2])]

\* (mutant) n = 3 closes the ring on p[0] instead of reaching p[3]
DarkAssign_Ring3(n) ==
    IF n = 2 THEN << <<0, 1>>, <<2, 3>> >>
    ELSE IF n = 3 THEN << <<0, 1>>, <<1, 2>>, <<2, 0>> >>
    ELSE << <<0, 1>>, <<1, 2>>, <<2, 3>>, <<3, 0>> >>

\* (mutant) n = 2 gives the second share an overlapping pair
DarkAssign_Overlap2(n) ==
    IF n = 2 THEN << <<0, 1>>, <<1, 2>> >>
    ELSE IF n = 3 THEN << <<0, 1>>, <<1, 2>>, <<2, 3>> >>
    ELSE << <<0, 1>>, <<1, 2>>, <<2, 3>>, <<3, 0>> >>

\* dark branch: the rows (indices into p) assigned to patterns[0], [1], ...
DarkAssign(n) ==
    IF n = 2 THEN << <<0, 1>>, <<2, 3>> >>
    ELSE IF n = 3 THEN << <<0, 1>>, <<1, 2>>, <<2, 3>> >>
    ELSE << <<0, 1>>, <<1, 2>>, <<2, 3>>, <<3, 0>> >>

\* the dark branch indexes patterns[s] for a row s >= n: patterns[s] is
\* undefined and the assignment throws a TypeError
DarkThrows(n) == Len(DarkAssign(n)) > n

\* (mutant) dark branch that sets the first position of each row twice
DarkPatterns_OneInk(p, n) ==
    [s \in 1..n |-> IF s <= Len(DarkAssign(n))
                    THEN Ink2(p[DarkAssign(n)[s][1] + 1], p[DarkAssign(n)[s][1] + 1])
                    ELSE <<0, 0, 0, 0>>]

DarkPatterns(p, n) ==
    [s \in 1..n |-> IF s <= Len(DarkAssign(n))
                    THEN Ink2(p[DarkAssign(n)[s][1] + 1], p[DarkAssign(n)[s][2] + 1])
                    ELSE <<0, 0, 0, 0>>]

\* generatePatterns(val, n) under the draws k (threshold) and d (shuffle)
generatePatterns(val, n, k, d) ==
    LET isDark == IsDark(val, k)
        p == Shuffle(d[1], d[2], d[3])
    IN  [val |-> val, n |-> n, called |-> TRUE, k |-> k,
         isDark |-> isDark, p |-> p,
         threw |-> isDark /\ DarkThrows(n),
         patterns |-> IF ~isDark THEN LightPatterns(p, n)
                      ELSE IF DarkThrows(n) THEN <<>>
                      ELSE DarkPatterns(p, n)]

NoCall(val, n) ==
    [val |-> val, n |-> n, called |-> FALSE, k |-> 0, isDark |-> FALSE,
     p |-> <<0, 1, 2, 3>>, threw |-> FALSE, patterns |-> <<>>]

\* ---------------------------------------------------------- writeBlock2x2
Offsets == << [dx |-> 0, dy |-> 0, i |-> 0], [dx |-> 1, dy |-> 0, i |-> 1],
              [dx |-> 0, dy |-> 1, i |-> 2], [dx |-> 1, dy |-> 1, i |-> 3] >>

\* (mutant) callback that takes the green byte from the red pattern
WriteSlot_RedForGreen(data, bx, by, width, pR, pG, pB, transparent, o) ==
    LET targetIdx == ((by * 2 + o.dy) * width + (bx * 2 + o.dx)) * 4
    IN  IF transparent
        THEN WriteByte(WriteByte(WriteByte(WriteByte(data,
                 targetIdx, 0), targetIdx + 1, 0), targetIdx + 2, 0), targetIdx + 3, 0)
        ELSE WriteByte(WriteByte(WriteByte(WriteByte(data,
                 targetIdx, (1 - pR[o.i + 1]) * 255),
                 targetIdx + 1, (1 - pR[o.i + 1]) * 255),
                 targetIdx + 2, (1 - pB[o.i + 1]) * 255),
                 targetIdx + 3, 255)

\* (mutant) callback that writes the ink bit itself: ink 255, clear 0
WriteSlot_NoInvert(data, bx, by, width, pR, pG, pB, transparent, o) ==
    LET targetIdx == ((by * 2 + o.dy) * width + (bx * 2 + o.dx)) * 4
    IN  IF transparent
        THEN WriteByte(WriteByte(WriteByte(WriteByte(data,
                 targetIdx, 0), targetIdx + 1, 0), targetIdx + 2, 0), targetIdx + 3, 0)
        ELSE WriteByte(WriteByte(WriteByte(WriteByte(data,
                 targetIdx, pR[o.i + 1] * 255),
                 targetIdx + 1, pG[o.i + 1] * 255),
                 targetIdx + 2, pB[o.i + 1] * 255),
                 targetIdx + 3, 255)

\* (mutant) callback whose target index does not double the source coordinates
WriteSlot_NoDoubling(data, bx, by, width, pR, pG, pB, transparent, o) ==
    LET targetIdx == ((by + o.dy) * width + (bx + o.dx)) * 4
    IN  IF transparent
        THEN WriteByte(WriteByte(WriteByte(WriteByte(data,
                 targetIdx, 0), targetIdx + 1, 0), targetIdx + 2, 0), targetIdx + 3, 0)
        ELSE WriteByte(WriteByte(WriteByte(WriteByte(data,
                 targetIdx, (1 - pR[o.i + 1]) * 255),
                 targetIdx + 1, (1 - pG[o.i + 1]) * 255),
                 targetIdx + 2, (1 - pB[o.i + 1]) * 255),
                 targetIdx + 3, 255)

\* the body of the forEach callback for one offset o
WriteSlot(data, bx, by, width, pR, pG, pB, transparent, o) ==
    LET targetIdx == ((by * 2 + o.dy) * width + (bx * 2 + o.dx)) * 4
    IN  IF transparent
        THEN WriteByte(WriteByte(WriteByte(WriteByte(data,
                 targetIdx, 0), targetIdx + 1, 0), targetIdx + 2, 0), targetIdx + 3, 0)
        ELSE WriteByte(WriteByte(WriteByte(WriteByte(data,
                 targetIdx, (1 - pR[o.i + 1]) * 255),
                 targetIdx + 1, (1 - pG[o.i + 1]) * 255),
                 targetIdx + 2, (1 - pB[o.i + 1]) * 255),
                 targetIdx + 3, 255)

writeBlock2x2(data, bx, by, width, pR, pG, pB, transparent) ==
    WriteSlot(WriteSlot(WriteSlot(WriteSlot(data,
        bx, by, width, pR, pG, pB, transparent, Offsets[1]),
        bx, by, width, pR, pG, pB, transparent, Offsets[2]),
        bx, by, width, pR, pG, pB, transparent, Offsets[3]),
        bx, by, width, pR, pG, pB, transparent, Offsets[4])

\* ---------------------------------------------------- generateVisualShares
outWidth == sourceData.width * 2
\* (mutant) output height computed from the width
outHeight_FromWidth == sourceData.width * 2

outHeight == sourceData.height * 2

\* the four bytes of source pixel (x, y)
PixelIndex == (y * sourceData.width + x) * 4
SrcR == ReadByte(sourceData.data, PixelIndex)
SrcG == ReadByte(sourceData.data, PixelIndex + 1)
SrcB == ReadByte(sourceData.data, PixelIndex + 2)
SrcA == ReadByte(sourceData.data, PixelIndex + 3)

\* (mutant) transparency test a <= 50
isTransparent_Inclusive == SrcA # Undefined /\ SrcA <= 50

\* a < 50 (undefined < 50 is false)
isTransparent == SrcA # Undefined /\ SrcA < 50

\* 0.299 * r + 0.587 * g + 0.114 * b, in thousandths
Lum ==
    IF SrcR = Undefined \/ SrcG = Undefined \/ SrcB = Undefined THEN NaN
    ELSE 299 * SrcR + 587 * SrcG + 114 * SrcB

Scaled(v) == IF v = Undefined THEN NaN ELSE v * 1000

\* isColor ? [r, g, b] : [lum, lum, lum]
Channels == IF isColor THEN <<Scaled(SrcR), Scaled(SrcG), Scaled(SrcB)>>
            ELSE <<Lum, Lum, Lum>>

\* the block-writer runs before any source is chosen
NoPixel == <<-1, -1>>

NoWrites ==
    [width |-> 0, height |-> 0, blocks |-> <<>>, data |-> <<>>, prev |-> <<>>,
     todo |-> {}, last |-> NoPixel, count |-> <<>>]

NoBlock == [x |-> -1, y |-> -1, dark |-> <<>>, transparent |-> FALSE]
NoResult == <<"none">>

\* lines 50-61: dimensions and allocation of the share buffers
Allocate ==
    /\ pc = "entry"
    /\ sharesData' = [s \in 1..shareCount |-> ZeroArray(outWidth * outHeight * 4)]
    /\ allocated' = TRUE
    /\ x' = 0
    /\ y' = 0
    /\ pc' = IF sourceData.height > 0 /\ sourceData.width > 0 THEN "gen" ELSE "ret"
    /\ UNCHANGED <<sourceData, shareCount, isColor, pat, dark, written, result, gp, wb>>

\* lines 66-84: the next generatePatterns call for pixel (x, y)
CallGeneratePatterns ==
    /\ pc = "gen"
    /\ \E k \in 0..(RandSteps - 1), d \in ShuffleDraws :
         LET r == generatePatterns(Channels[Len(pat) + 1], shareCount, k, d)
         IN  IF r.threw
             THEN /\ pc' = "threw"
                  /\ UNCHANGED <<pat, dark>>
             ELSE /\ pat' = Append(pat, r.patterns)
                  /\ dark' = Append(dark, r.isDark)
                  /\ pc' = IF Len(pat) = 2 THEN "write" ELSE "gen"
    /\ UNCHANGED <<sourceData, shareCount, isColor, x, y, sharesData, allocated,
                   written, result, gp, wb>>

\* lines 87-94 and the loop increments of lines 64-65
WriteBlocks ==
    /\ pc = "write"
    /\ sharesData' = [s \in 1..shareCount |->
                        writeBlock2x2(sharesData[s], x, y, outWidth,
                                      pat[1][s], pat[2][s], pat[3][s], isTransparent)]
    /\ written' = [x |-> x, y |-> y, dark |-> dark, transparent |-> isTransparent]
    /\ pat' = <<>>
    /\ dark' = <<>>
    /\ IF x + 1 < sourceData.width
       THEN x' = x + 1 /\ y' = y /\ pc' = "gen"
       ELSE /\ x' = 0
            /\ y' = y + 1
            /\ pc' = IF y + 1 < sourceData.height THEN "gen" ELSE "ret"
    /\ UNCHANGED <<sourceData, shareCount, isColor, allocated, result, gp, wb>>

\* line 98
Return ==
    /\ pc = "ret"
    /\ result' = [s \in 1..shareCount |->
                    [width |-> outWidth, height |-> outHeight, data |-> sharesData[s]]]
    /\ pc' = "returned"
    /\ UNCHANGED <<sourceData, shareCount, isColor, x, y, pat, dark, sharesData,
                   allocated, written, gp, wb>>

\* ------------------------------------------------------------------ inputs
Pixel(r, g, b, a) == <<r, g, b, a>>
Black == Pixel(0, 0, 0, 255)
White == Pixel(255, 255, 255, 255)
Cyan == Pixel(0, 255, 255, 255)
Mixed == Pixel(128, 255, 255, 50)
Ghost == Pixel(255, 0, 128, 49)
Clear == Pixel(255, 255, 255, 0)

Image(w, h, data) == [width |-> w, height |-> h, data |-> data]

WellFormed(img) == Len(img.data) = img.width * img.height * 4

\* the source buffers tried: single pixels, a row and a column of two pixels,
\* and buffers whose data is shorter or longer than width * height * 4
Sources ==
    { Image(1, 1, px) : px \in {Cyan, White, Mixed, Ghost} }
    \cup { Image(2, 1, Clear \o White), Image(1, 2, Clear \o Cyan) }
    \cup { Image(1, 1, <<>>), Image(1, 1, <<0, 255>>), Image(1, 1, White \o Black) }

Init ==
    /\ sourceData \in Sources
    /\ shareCount \in 0..MaxShareCount
    /\ isColor \in BOOLEAN
    /\ pc = "entry"
    /\ x = 0
    /\ y = 0
    /\ pat = <<>>
    /\ dark = <<>>
    /\ sharesData = <<>>
    /\ allocated = FALSE
    /\ written = NoBlock
    /\ result = NoResult
    /\ gp = NoCall(0, 0)
    /\ wb = NoWrites

Next == Allocate \/ CallGeneratePatterns \/ WriteBlocks \/ Return

Spec == Init /\ [][Next]_vars

\* ------------------------------------- generatePatterns as a pure function
InitGP ==
    /\ sourceData = Image(1, 1, Black)
    /\ shareCount = 2
    /\ isColor = FALSE
    /\ pc = "pure"
    /\ x = 0
    /\ y = 0
    /\ pat = <<>>
    /\ dark = <<>>
    /\ sharesData = <<>>
    /\ allocated = FALSE
    /\ written = NoBlock
    /\ result = NoResult
    /\ \E v \in Intensities, n \in 0..MaxShareCount : gp = NoCall(v * 1000, n)
    /\ wb = NoWrites

ApplyGeneratePatterns ==
    /\ pc = "pure"
    /\ ~gp.called
    /\ \E k \in 0..(RandSteps - 1), d \in ShuffleDraws :
         gp' = generatePatterns(gp.val, gp.n, k, d)
    /\ UNCHANGED <<sourceData, shareCount, isColor, pc, x, y, pat, dark, sharesData,
                   allocated, written, result, wb>>

NextGP == ApplyGeneratePatterns

SpecGP == InitGP /\ [][NextGP]_vars

\* ------------------------------------- writeBlock2x2 on one share buffer
\* the patterns generatePatterns can hand to one share: the six 2-of-4 ink
\* vectors, and the all-clear vector of a share beyond the fourth
InkPatterns ==
    {Ink2(ab[1], ab[2]) : ab \in {c \in (0..3) \X (0..3) : c[1] # c[2]}}
        \cup {<<0, 0, 0, 0>>}

Block(pR, pG, pB, transparent) ==
    [pR |-> pR, pG |-> pG, pB |-> pB, transparent |-> transparent]

\* every block of one pixel, and a few blocks for the pixels of larger images
AllBlocks ==
    {Block(pR, pG, pB, t) : pR \in InkPatterns, pG \in InkPatterns,
                            pB \in InkPatterns, t \in BOOLEAN}
FewBlocks ==
    { Block(<<1, 1, 0, 0>>, <<0, 1, 1, 0>>, <<0, 0, 1, 1>>, FALSE),
      Block(<<1, 0, 0, 1>>, <<0, 0, 0, 0>>, <<0, 1, 0, 1>>, FALSE),
      Block(<<0, 1, 0, 1>>, <<1, 0, 1, 0>>, <<1, 1, 0, 0>>, TRUE) }

\* source dimensions (width, height) of the block-writer runs
Dims == {<<1, 1>>, <<2, 1>>, <<1, 2>>, <<3, 1>>, <<2, 2>>}

PixelsOf(w, h) == (0..(w - 1)) \X (0..(h - 1))

\* the output pixels (0-based pixel indices of a buffer of len bytes) that
\* writeBlock2x2 writes for source pixel (bx, by): those whose alpha byte a
\* call on a buffer of 7s replaces
Touched(bx, by, width, len) ==
    LET probe == writeBlock2x2([i \in 1..len |-> 7], bx, by, width,
                               <<0, 0, 0, 0>>, <<0, 0, 0, 0>>, <<0, 0, 0, 0>>, FALSE)
    IN  {t \in 0..((len \div 4) - 1) : probe[4 * t + 4] # 7}

InitBlocks ==
    /\ sourceData = Image(1, 1, Black)
    /\ shareCount = 2
    /\ isColor = FALSE
    /\ pc = "blocks"
    /\ x = 0
    /\ y = 0
    /\ pat = <<>>
    /\ dark = <<>>
    /\ sharesData = <<>>
    /\ allocated = FALSE
    /\ written = NoBlock
    /\ result = NoResult
    /\ gp = NoCall(0, 0)
    /\ \E dim \in Dims :
         \E blocks \in [PixelsOf(dim[1], dim[2]) ->
                          IF dim[1] * dim[2] = 1 THEN AllBlocks ELSE FewBlocks] :
            wb = [width |-> dim[1], height |-> dim[2], blocks |-> blocks,
                  data |-> ZeroArray((dim[1] * 2) * (dim[2] * 2) * 4),
                  prev |-> ZeroArray((dim[1] * 2) * (dim[2] * 2) * 4),
                  todo |-> PixelsOf(dim[1], dim[2]),
                  last |-> NoPixel,
                  count |-> [t \in 1..((dim[1] * 2) * (dim[2] * 2)) |-> 0]]

\* lines 87-94 for one share and one source pixel q, the source pixels being
\* taken in any order
ProcessPixel ==
    /\ pc = "blocks"
    /\ \E q \in wb.todo :
         LET b == wb.blocks[q]
             touched == Touched(q[1], q[2], wb.width * 2, Len(wb.data))
         IN  wb' = [wb EXCEPT
                      !.data = writeBlock2x2(wb.data, q[1], q[2], wb.width * 2,
                                             b.pR, b.pG, b.pB, b.transparent),
                      !.prev = wb.data,
                      !.todo = wb.todo \ {q},
                      !.last = q,
                      !.count = [t \in 1..Len(wb.count) |->
                                   wb.count[t] + IF (t - 1) \in touched THEN 1 ELSE 0]]
    /\ UNCHANGED <<sourceData, shareCount, isColor, pc, x, y, pat, dark, sharesData,
                   allocated, written, result, gp>>

NextBlocks == ProcessPixel

SpecBlocks == InitBlocks /\ [][NextBlocks]_vars

\* ------------------------------------------------------------- properties
\* number of ink bits of a pattern, and the set of its ink positions
InkBits(pt) == Cardinality({m \in 1..4 : pt[m] = 1})
InkSet(pt) == {m - 1 : m \in {q \in 1..4 : pt[q] = 1}}

\* an isolated generatePatterns call returned for a supported share count
Returned24 == gp.called /\ ~gp.threw /\ gp.n \in 2..4

\* C1 (ink-count invariant): for every intensity, every n in {2,3,4}, every
\* threshold draw and every shuffle, generatePatterns returns n patterns of 4
\* bits each, and each has exactly 2 bits set to ink, dark or light alike.
InkCountInvariant ==
    Returned24 =>
        /\ Len(gp.patterns) = gp.n
        /\ \A s \in 1..gp.n :
             /\ \A m \in 1..4 : gp.patterns[s][m] \in {0, 1}
             /\ InkBits(gp.patterns[s]) = 2

InkCountWitness ==
    /\ Returned24 /\ gp.n = 3 /\ gp.isDark /\ gp.val = 97000
    /\ InkBits(gp.patterns[2]) = 2

\* C2 (dark coverage): when the channel is classified dark and n is in
\* {2,3,4}, the ink positions of the n patterns together are {0,1,2,3}.
DarkCoverage ==
    (Returned24 /\ gp.isDark) =>
        UNION {InkSet(gp.patterns[s]) : s \in 1..gp.n} = 0..3

DarkCoverageWitness ==
    /\ Returned24 /\ gp.isDark /\ gp.n = 3 /\ gp.p = <<2, 0, 3, 1>>
    /\ InkSet(gp.patterns[1]) \cup InkSet(gp.patterns[2]) # 0..3
    /\ UNION {InkSet(gp.patterns[s]) : s \in 1..3} = 0..3

\* C3 (light uniformity): when the channel is classified light, all n
\* patterns are bit-identical and their ink set is {p[0], p[1]}.
LightUniformity ==
    (gp.called /\ ~gp.isDark) =>
        /\ Len(gp.patterns) = gp.n
        /\ \A s \in 1..gp.n :
             /\ gp.patterns[s] = gp.patterns[1]
             /\ InkSet(gp.patterns[s]) = {gp.p[1], gp.p[2]}

LightUniformityWitness ==
    /\ gp.called /\ ~gp.isDark /\ gp.n = 4 /\ gp.p = <<3, 1, 0, 2>>
    /\ gp.patterns[4] = <<0, 1, 0, 1>>

\* the number of shuffles under which share s (1-based) of n receives pattern
\* pt, in the dark branch and in the light branch
DarkWays(n, s, pt) ==
    Cardinality({d \in ShuffleDraws : DarkPatterns(Shuffle(d[1], d[2], d[3]), n)[s] = pt})
LightWays(n, s, pt) ==
    Cardinality({d \in ShuffleDraws : LightPatterns(Shuffle(d[1], d[2], d[3]), n)[s] = pt})

\* C4 (single-share indistinguishability): for n in {2,3,4} and every share
\* s < n, the pattern share s received is produced by the same number of
\* shuffles (4 of the 24, i.e. each of the six 2-of-4 subsets equally often)
\* when the target is dark as when it is light.
SingleShareIndistinguishable ==
    Returned24 =>
        \A s \in 1..gp.n :
            /\ DarkWays(gp.n, s, gp.patterns[s]) = 4
            /\ LightWays(gp.n, s, gp.patterns[s]) = 4

SingleShareWitness ==
    /\ Returned24 /\ gp.n = 4 /\ gp.isDark
    /\ gp.patterns[4] = <<1, 0, 0, 1>>
    /\ LightWays(4, 4, gp.patterns[4]) = 4

\* C10 (dark pattern table): for a dark target with permutation p the
\* patterns are n=2: {p0,p1},{p2,p3}; n=3: {p0,p1},{p1,p2},{p2,p3};
\* n=4: {p0,p1},{p1,p2},{p2,p3},{p3,p0}; nothing else is ink.
DarkPatternTable ==
    (Returned24 /\ gp.isDark) =>
        LET p0 == gp.p[1]
            p1 == gp.p[2]
            p2 == gp.p[3]
            p3 == gp.p[4]
            ink == [s \in 1..gp.n |-> InkSet(gp.patterns[s])]
        IN  /\ gp.n = 2 => ink = << {p0, p1}, {p2, p3} >>
            /\ gp.n = 3 => ink = << {p0, p1}, {p1, p2}, {p2, p3} >>
            /\ gp.n = 4 => ink = << {p0, p1}, {p1, p2}, {p2, p3}, {p3, p0} >>
            /\ gp.n = 2 => InkSet(gp.patterns[1]) \cap InkSet(gp.patterns[2]) = {}

DarkPatternTableWitness ==
    /\ Returned24 /\ gp.isDark /\ gp.n = 4 /\ gp.p = <<1, 3, 0, 2>>
    /\ gp.patterns = << <<0, 1, 0, 1>>, <<1, 0, 0, 1>>, <<1, 0, 1, 0>>, <<0, 1, 1, 0>> >>

\* the index, in a share buffer, of the first byte of subpixel i (0 top-left,
\* 1 top-right, 2 bottom-left, 3 bottom-right) of the block of pixel (bx, by)
SubpixelIndex(bx, by, i) ==
    ((2 * by + (i \div 2)) * (2 * sourceData.width) + (2 * bx + (i % 2))) * 4

\* multiply compositing of two bytes, and of byte idx (0-based) of the
\* buffers bufs[s], bufs[s+1], ...
Multiply(a, b) == (a * b) \div 255

RECURSIVE Stack(_, _, _)
Stack(bufs, s, idx) ==
    IF s > Len(bufs) THEN 255
    ELSE Multiply(bufs[s][idx + 1], Stack(bufs, s + 1, idx))

\* the stacked value of colour channel c (0 R, 1 G, 2 B) in subpixel i of the
\* block last written
Stacked(c, i) == Stack(sharesData, 1, SubpixelIndex(written.x, written.y, i) + c)

\* C5 (stacking correctness): for an opaque source pixel and n in {2,3,4},
\* multiplying the n shares' written blocks gives, per colour channel, 0 in
\* all 4 subpixels when the channel was classified dark, and 0 in exactly 2
\* subpixels and 255 in the other 2 when it was classified light.
StackingCorrectness ==
    (written # NoBlock /\ ~written.transparent /\ shareCount \in 2..4) =>
        \A c \in 0..2 :
            IF written.dark[c + 1]
            THEN \A i \in 0..3 : Stacked(c, i) = 0
            ELSE /\ Cardinality({i \in 0..3 : Stacked(c, i) = 0}) = 2
                 /\ Cardinality({i \in 0..3 : Stacked(c, i) = 255}) = 2

StackingWitness ==
    /\ written # NoBlock /\ ~written.transparent /\ shareCount = 3
    /\ sourceData = Image(1, 1, Cyan) /\ isColor
    /\ written.dark = <<TRUE, FALSE, FALSE>>
    /\ \A i \in 0..3 : Stacked(0, i) = 0
    /\ {i \in 0..3 : Stacked(1, i) = 0} = {1, 2}

\* the source pixels whose alpha byte is present in the data
SourcePixels ==
    {q \in (0..(sourceData.width - 1)) \X (0..(sourceData.height - 1)) :
        (q[2] * sourceData.width + q[1]) * 4 + 3 < Len(sourceData.data)}

Alpha(q) == sourceData.data[(q[2] * sourceData.width + q[1]) * 4 + 3 + 1]

\* C6 (transparency pass-through): after generateVisualShares, a source
\* pixel with alpha below 50 has (0,0,0,0) in all 4 subpixels of its block in
\* every share, whatever its RGB values; a source pixel with alpha 50 or more
\* has alpha 255 in all 4 subpixels of its block in every share.
TransparencyPassThrough ==
    pc = "returned" =>
        \A q \in SourcePixels : \A s \in 1..Len(result) : \A i \in 0..3 :
            LET t == SubpixelIndex(q[1], q[2], i)
                d == result[s].data
            IN  IF Alpha(q) < 50
                THEN <<d[t + 1], d[t + 2], d[t + 3], d[t + 4]>> = <<0, 0, 0, 0>>
                ELSE d[t + 4] = 255

TransparencyWitness ==
    /\ pc = "returned" /\ shareCount = 3 /\ isColor
    /\ sourceData = Image(1, 2, Clear \o Cyan)
    /\ \A i \in 1..16 : result[3].data[i] = 0
    /\ result[3].data[20] = 255

\* C7 (rejection law): a call with shareCount outside [2,4] is rejected
\* before any share buffer is allocated, and returns no share buffers.
RejectionLaw ==
    shareCount \notin 2..4 => (~allocated /\ result = NoResult)

\* C8 (dimension law): for shareCount in [2,4], generateVisualShares returns
\* exactly shareCount buffers, each of width 2w, height 2h and 2w*2h*4 bytes.
DimensionLaw ==
    (pc = "returned" /\ shareCount \in 2..4) =>
        /\ Len(result) = shareCount
        /\ \A s \in 1..shareCount :
             /\ result[s].width = 2 * sourceData.width
             /\ result[s].height = 2 * sourceData.height
             /\ Len(result[s].data) = (2 * sourceData.width) * (2 * sourceData.height) * 4

DimensionWitness ==
    /\ pc = "returned" /\ shareCount = 4
    /\ sourceData.width = 2 /\ sourceData.height = 1
    /\ result[4].width = 4 /\ result[4].height = 2 /\ Len(result[4].data) = 32

\* C9 (malformed input): when the data length differs from width * height * 4
\* the call fails with a validation error: no block is written, nothing is
\* returned.
MalformedInputRejected ==
    ~WellFormed(sourceData) => (written = NoBlock /\ result = NoResult)

\* the threshold of draw k, in thousandths and multiplied by RandSteps
ThresholdScaled(k) == 98000 * RandSteps + 60000 * k

Processed == PixelsOf(wb.width, wb.height) \ wb.todo

\* the output pixel (0-based pixel index in the share buffer) of slot i
\* (0 top-left, 1 top-right, 2 bottom-left, 3 bottom-right) of source pixel q
SlotPixel(q, i) == (2 * q[2] + (i \div 2)) * (2 * wb.width) + (2 * q[1] + (i % 2))

\* the colour byte of an ink bit
InkByte(bit) == IF bit = 1 THEN 0 ELSE 255

\* C11 (block writer value mapping): for a non-transparent source pixel,
\* writeBlock2x2 writes into slot i of the block R = 0 if inkR[i] = 1 else
\* 255, G and B likewise from inkG and inkB, and A = 255.
BlockValueMapping ==
    pc = "blocks" =>
        \A q \in Processed : ~wb.blocks[q].transparent =>
            \A i \in 0..3 :
                LET t == 4 * SlotPixel(q, i)
                    b == wb.blocks[q]
                IN  /\ wb.data[t + 1] = InkByte(b.pR[i + 1])
                    /\ wb.data[t + 2] = InkByte(b.pG[i + 1])
                    /\ wb.data[t + 3] = InkByte(b.pB[i + 1])
                    /\ wb.data[t + 4] = 255
                    /\ \A c \in 1..3 : wb.data[t + c] \in {0, 255}

BlockValueWitness ==
    /\ pc = "blocks" /\ wb.width = 2 /\ wb.height = 2 /\ wb.last = <<1, 1>>
    /\ wb.blocks[<<1, 1>>] = Block(<<1, 1, 0, 0>>, <<0, 1, 1, 0>>, <<0, 0, 1, 1>>, FALSE)
    /\ <<wb.data[41], wb.data[42], wb.data[43], wb.data[44]>> = <<0, 255, 255, 255>>
    /\ <<wb.data[61], wb.data[62], wb.data[63], wb.data[64]>> = <<255, 255, 0, 255>>

\* the four output pixels of the block of source pixel q
BlockPixels(q) == {SlotPixel(q, i) : i \in 0..3}

\* the share buffer after the code's own pass: source pixels k, k+1, ... in
\* row-major order
RECURSIVE SequentialPass(_, _)
SequentialPass(data, k) ==
    IF k >= wb.width * wb.height THEN data
    ELSE LET q == <<k % wb.width, k \div wb.width>>
             b == wb.blocks[q]
         IN  SequentialPass(writeBlock2x2(data, q[1], q[2], wb.width * 2,
                                          b.pR, b.pG, b.pB, b.transparent), k + 1)

\* C12 (disjoint block writes): processing source pixel (x,y) writes only
\* the 4 output pixels at columns 2x,2x+1 and rows 2y,2y+1 and leaves every
\* other output pixel unchanged; blocks of distinct source pixels do not
\* overlap; after the full pass every output pixel has been written exactly
\* once; and whatever the order in which the source pixels were processed,
\* the buffer is the one the row-major pass produces.
DisjointBlockWrites ==
    pc = "blocks" =>
        /\ wb.last # NoPixel =>
              /\ Touched(wb.last[1], wb.last[2], wb.width * 2, Len(wb.data))
                    = BlockPixels(wb.last)
              /\ \A t \in 0..(Len(wb.count) - 1) : t \notin BlockPixels(wb.last) =>
                    \A c \in 1..4 : wb.data[4 * t + c] = wb.prev[4 * t + c]
        /\ \A q1 \in Processed : \A q2 \in Processed :
              q1 # q2 => BlockPixels(q1) \cap BlockPixels(q2) = {}
        /\ \A t \in 1..Len(wb.count) :
              wb.count[t] = Cardinality({q \in Processed : (t - 1) \in BlockPixels(q)})
        /\ wb.todo = {} =>
              /\ \A t \in 1..Len(wb.count) : wb.count[t] = 1
              /\ wb.data = SequentialPass(ZeroArray(Len(wb.data)), 0)

DisjointWritesWitness ==
    /\ pc = "blocks" /\ wb.width = 2 /\ wb.height = 2 /\ wb.todo = {}
    /\ wb.last = <<0, 0>>
    /\ wb.blocks[<<0, 0>>] # wb.blocks[<<1, 0>>]
    /\ \A t \in 1..16 : wb.count[t] = 1
    /\ wb.data # wb.prev
    /\ wb.data = SequentialPass(ZeroArray(64), 0)

====
